---- MODULE Spec2Model ----
(***************************************************************************)
(* Model of comprehensive-whatsapp-analysis.py: parse_chat (the regular    *)
(* expression scan of the chat export, strptime, the call / message split  *)
(* and the duration search) and the stages of analyze_chat.                *)
(*                                                                         *)
(* Text is a sequence of one-character strings, so that the regular        *)
(* expressions and strptime are computed on characters as the code does.   *)
(* Calls into the rendering layer (plt.*, sns.*, WordCloud) return         *)
(* normally and leave no state behind; pandas, re and datetime are         *)
(* modelled by what they compute and by the exceptions they raise.         *)
(***************************************************************************)
EXTENDS Integers, Sequences, FiniteSets, TLC

VARIABLES content, pc, err, matches, k, msgs, calls,
          msg_count, img_count, stk_count, daily, fcast, heat, stats,
          corpus, lengths, hours, emojis, resp

parseVars == <<content, pc, err, matches, k, msgs, calls>>

parseVarsButPc == <<content, err, matches, k, msgs, calls>>

countVars == <<msg_count, img_count, stk_count>>

laterVars == <<heat, stats, corpus, lengths, hours, emojis, resp>>

vars == <<parseVars, countVars, daily, fcast, laterVars>>

(***************************************************************************)
(* Bounds of the inputs.                                                   *)
(***************************************************************************)
MaxParseLines == 2

MaxChatLines == 4

(***************************************************************************)
(* Characters.                                                             *)
(***************************************************************************)
NL == "\n"

DigitChars == <<"0", "1", "2", "3", "4", "5", "6", "7", "8", "9">>

UpperChars == <<"A", "B", "C", "D", "E", "F", "G", "H", "I", "J", "K", "L", "M", "N", "O", "P", "Q", "R", "S", "T", "U", "V", "W", "X", "Y", "Z">>

LowerChars == <<"a", "b", "c", "d", "e", "f", "g", "h", "i", "j", "k", "l", "m", "n", "o", "p", "q", "r", "s", "t", "u", "v", "w", "x", "y", "z">>

Range(f) == {f[i] : i \in DOMAIN f}

\* \d of the regular expressions
IsDigit(c) == c \in Range(DigitChars)

\* str.isalpha on one character
IsAlpha(c) == c \in Range(UpperChars) \cup Range(LowerChars)

\* \w of the regular expressions
IsWordChar(c) == IsDigit(c) \/ IsAlpha(c) \/ c = "_"

DigitVal(c) == (CHOOSE i \in DOMAIN DigitChars : DigitChars[i] = c) - 1

\* int(...) of a run of digits
RECURSIVE IntOf(_)
IntOf(s) == IF s = <<>> THEN 0
            ELSE 10 * IntOf(SubSeq(s, 1, Len(s) - 1)) + DigitVal(s[Len(s)])

\* needle in hay, on characters
Contains(hay, needle) ==
    \E i \in 1..(Len(hay) - Len(needle) + 1) :
        SubSeq(hay, i, i + Len(needle) - 1) = needle

\* str.startswith
StartsWith(s, p) == Len(s) >= Len(p) /\ SubSeq(s, 1, Len(p)) = p

(***************************************************************************)
(* re.findall(pattern, content) with                                       *)
(*   \[(\d{2}/\d{2}/\d{4}, \d{2}:\d{2}:\d{2})\] (.+?): (.+)                *)
(***************************************************************************)
StampLen == 20

\* \d{2}/\d{2}/\d{4}, \d{2}:\d{2}:\d{2} matches the StampLen characters from i
StampShapeAt(s, i) ==
    /\ i + StampLen - 1 <= Len(s)
    /\ \A o \in {0, 1, 3, 4, 6, 7, 8, 9, 12, 13, 15, 16, 18, 19} : IsDigit(s[i + o])
    /\ s[i + 2] = "/" /\ s[i + 5] = "/"
    /\ s[i + 10] = "," /\ s[i + 11] = " "
    /\ s[i + 14] = ":" /\ s[i + 17] = ":"

\* last position of the run of non-newline characters that starts at i
RECURSIVE DotRunEnd(_, _)
DotRunEnd(s, i) == IF i + 1 <= Len(s) /\ s[i + 1] # NL THEN DotRunEnd(s, i + 1) ELSE i

\* positions j of a ": " that can end the sender started at st: (.+?) holds
\* at least one character, none a newline, and (.+) at least one after it
SenderEnds(s, st) ==
    {j \in (st + 1)..(Len(s) - 2) :
        /\ \A p \in st..(j - 1) : s[p] # NL
        /\ s[j] = ":" /\ s[j + 1] = " "
        /\ s[j + 2] # NL}

Min(S) == CHOOSE x \in S : \A y \in S : x <= y

Max(S) == CHOOSE x \in S : \A y \in S : y <= x

\* a greedy sender, (.+) in place of (.+?), runs to the last ": " of the line
GreedySenderEnd(s, st) == Max(SenderEnds(s, st))

\* the lazy (.+?) stops at the first ": " that lets the rest match
LazySenderEnd(s, st) == Min(SenderEnds(s, st))

\* the pattern matches with its "[" at position i
PatternMatchesAt(s, i) ==
    /\ i + StampLen + 2 <= Len(s)
    /\ s[i] = "["
    /\ StampShapeAt(s, i + 1)
    /\ s[i + StampLen + 1] = "]"
    /\ s[i + StampLen + 2] = " "
    /\ SenderEnds(s, i + StampLen + 3) # {}

\* the three groups of the match at i, and the position of its last character
MatchAt(s, i) ==
    LET st == i + StampLen + 3
        j  == LazySenderEnd(s, st)
        e  == DotRunEnd(s, j + 2)
    IN  [dt_str |-> SubSeq(s, i + 1, i + StampLen),
         sender |-> SubSeq(s, st, j - 1),
         msg    |-> SubSeq(s, j + 2, e),
         last   |-> e]

Groups(m) == [dt_str |-> m.dt_str, sender |-> m.sender, msg |-> m.msg]

\* leftmost, non-overlapping matches from position i on
RECURSIVE FindAllFrom(_, _)
FindAllFrom(s, i) ==
    IF i > Len(s) THEN <<>>
    ELSE IF PatternMatchesAt(s, i)
         THEN <<Groups(MatchAt(s, i))>> \o FindAllFrom(s, MatchAt(s, i).last + 1)
         ELSE FindAllFrom(s, i + 1)

FindAll(s) == FindAllFrom(s, 1)

(***************************************************************************)
(* datetime.strptime(dt_str, '%d/%m/%Y, %H:%M:%S')                         *)
(***************************************************************************)
IsLeap(y) == y % 4 = 0 /\ (y % 100 # 0 \/ y % 400 = 0)

DaysInMonth(y, m) ==
    IF m = 2 THEN (IF IsLeap(y) THEN 29 ELSE 28)
    ELSE IF m \in {4, 6, 9, 11} THEN 30 ELSE 31

\* the fields strptime reads from the fixed-width string
StrptimeFields(d) ==
    [day    |-> IntOf(SubSeq(d, 1, 2)),
     month  |-> IntOf(SubSeq(d, 4, 5)),
     year   |-> IntOf(SubSeq(d, 7, 10)),
     hour   |-> IntOf(SubSeq(d, 13, 14)),
     minute |-> IntOf(SubSeq(d, 16, 17)),
     second |-> IntOf(SubSeq(d, 19, 20))]

\* strptime returns a datetime; otherwise it raises ValueError
StrptimeOk(d) ==
    LET f == StrptimeFields(d)
    IN  /\ f.year >= 1
        /\ f.month \in 1..12
        /\ f.day >= 1 /\ f.day <= DaysInMonth(f.year, f.month)
        /\ f.hour <= 23 /\ f.minute <= 59 /\ f.second <= 59

Strptime(d) == StrptimeFields(d)

(***************************************************************************)
(* The call branch of parse_chat.                                          *)
(***************************************************************************)
TxtVideoCall == <<"V", "i", "d", "e", "o", " ", "c", "a", "l", "l">>

TxtMissedVideoCall == <<"M", "i", "s", "s", "e", "d", " ", "v", "i", "d", "e", "o", " ", "c", "a", "l", "l">>

TxtMissed == <<"M", "i", "s", "s", "e", "d">>

TxtHr == <<"h", "r">>

\* 'Video call' in msg or 'Missed video call' in msg
IsCallMsg(msg) == Contains(msg, TxtVideoCall) \/ Contains(msg, TxtMissedVideoCall)

\* 'Missed' if 'Missed' in msg else 'Completed'
CallType(msg) == IF Contains(msg, TxtMissed) THEN "Missed" ELSE "Completed"

\* ends e of a (\d+) that starts at i and is followed by " " and a \w
DigitsEnds(s, i) ==
    {e \in i..(Len(s) - 2) :
        /\ \A p \in i..e : IsDigit(s[p])
        /\ s[e + 1] = " "
        /\ IsWordChar(s[e + 2])}

\* last position of the run of \w characters that starts at i
RECURSIVE WordRunEnd(_, _)
WordRunEnd(s, i) == IF i + 1 <= Len(s) /\ IsWordChar(s[i + 1]) THEN WordRunEnd(s, i + 1) ELSE i

\* re.search(r'(\d+) (\w+)', msg): start positions of a match
DurationStarts(s) == {i \in 1..Len(s) : DigitsEnds(s, i) # {}}

\* the two groups of the leftmost match, both taken greedily
DurationGroups(s) ==
    LET i == Min(DurationStarts(s))
        e == Max(DigitsEnds(s, i))
    IN  [val |-> IntOf(SubSeq(s, i, e)), unit |-> SubSeq(s, e + 2, WordRunEnd(s, e + 2))]

\* the unit is ignored and every value is taken as minutes
UnitMinutesNoHours(val, unit) == val

\* duration = val * 60 if unit.startswith('hr') else val
UnitMinutes(val, unit) == IF StartsWith(unit, TxtHr) THEN val * 60 ELSE val

\* the duration is searched for whatever the type of the call
CallDurationAnyType(msg) ==
    IF DurationStarts(msg) # {}
    THEN UnitMinutes(DurationGroups(msg).val, DurationGroups(msg).unit)
    ELSE 0

\* the duration parse_chat gives a call whose body is msg
CallDuration(msg) ==
    IF CallType(msg) = "Completed" /\ DurationStarts(msg) # {}
    THEN UnitMinutes(DurationGroups(msg).val, DurationGroups(msg).unit)
    ELSE 0

(***************************************************************************)
(* Inputs: the text of the chat export.                                    *)
(***************************************************************************)
D2(n) == <<DigitChars[((n \div 10) % 10) + 1], DigitChars[(n % 10) + 1]>>

D4(n) == D2(n \div 100) \o D2(n % 100)

\* a time stamp as the export writes it, with its brackets
StampText(t) ==
    <<"[">> \o D2(t.day) \o <<"/">> \o D2(t.month) \o <<"/">> \o D4(t.year) \o <<",", " ">>
        \o D2(t.hour) \o <<":">> \o D2(t.minute) \o <<":">> \o D2(t.second) \o <<"]">>

T(d, mo, y, h, mi, s) == [day |-> d, month |-> mo, year |-> y, hour |-> h, minute |-> mi, second |-> s]

LineText(pre, t, sender, body) == pre \o StampText(t) \o <<" ">> \o sender \o <<":", " ">> \o body

RECURSIVE JoinLines(_)
JoinLines(ls) == IF ls = <<>> THEN <<>>
                 ELSE IF Len(ls) = 1 THEN ls[1]
                 ELSE ls[1] \o <<NL>> \o JoinLines(Tail(ls))

SeqsUpTo(S, n) == UNION {[1..m -> S] : m \in 0..n}

ValidStamp == T(1, 1, 2024, 10, 0, 0)

LeapStamp == T(29, 2, 2024, 23, 59, 59)

BadDateStamp == T(31, 2, 2024, 10, 0, 0)

BadHourStamp == T(1, 1, 2024, 25, 0, 0)

SenderA == <<"A">>

SenderB == <<"B">>

SenderColon == <<"A", ":", "B">>

ParseSenders == {SenderA, SenderColon}

BodyHi == <<"h", "i">>

BodyColon == <<"a", ":", " ", "b">>

BodyVideoCall == <<"V", "i", "d", "e", "o", " ", "c", "a", "l", "l">>

BodyCall2Hr == <<"V", "i", "d", "e", "o", " ", "c", "a", "l", "l", " ", "2", " ", "h", "r">>

BodyCall45Min == <<"V", "i", "d", "e", "o", " ", "c", "a", "l", "l", " ", "4", "5", " ", "m", "i", "n">>

BodyCall2Hr45Min == <<"V", "i", "d", "e", "o", " ", "c", "a", "l", "l", " ", "2", " ", "h", "r", " ", "4", "5", " ", "m", "i", "n">>

BodyMissed3Hrs == <<"M", "i", "s", "s", "e", "d", " ", "v", "i", "d", "e", "o", " ", "c", "a", "l", "l", ",", " ", "3", " ", "h", "r", "s", " ", "a", "g", "o">>

BodyMissedCall5Min == <<"M", "i", "s", "s", "e", "d", " ", "c", "a", "l", "l", " ", "5", " ", "m", "i", "n">>

ParseBodies == {BodyHi, BodyColon, BodyVideoCall, BodyCall2Hr, BodyCall45Min,
                BodyCall2Hr45Min, BodyMissed3Hrs, BodyMissedCall5Min}

\* a continuation line, and a stamped line with no ": " after the sender
ContinuationLine == <<"h", "e", "l", "l", "o">>

NoDelimiterLine == StampText(ValidStamp) \o <<" ", "A", " ", "h", "i">>

\* text before the opening bracket
PrefixedLine == LineText(<<"x">>, ValidStamp, SenderA, BodyHi)

ParseLines ==
    {LineText(<<>>, ValidStamp, SenderA, b) : b \in ParseBodies}
        \cup {LineText(<<>>, ValidStamp, SenderColon, BodyColon)}
        \cup {LineText(<<>>, t, SenderA, BodyHi) : t \in {LeapStamp, BadDateStamp, BadHourStamp}}
        \cup {ContinuationLine, NoDelimiterLine, PrefixedLine}

ParseContents == {JoinLines(ls) : ls \in SeqsUpTo(ParseLines, MaxParseLines)}

\* the chats given to the analysis stages
JanFirst1000 == T(1, 1, 2024, 10, 0, 0)

JanFirst1005 == T(1, 1, 2024, 10, 5, 0)

JanSecond2359 == T(2, 1, 2024, 23, 59, 59)

JanThird0900 == T(3, 1, 2024, 9, 0, 0)

BodyImage == <<"I", "m", "a", "g", "e", " ", "o", "m", "i", "t", "t", "e", "d">>

BodyStickerEmoji == <<"l", "a", " ", "U+1F600", " ", "s", "t", "i", "c", "k", "e", "r", " ", "o", "m", "i", "t", "t", "e", "d">>

ChatLines ==
    {LineText(<<>>, JanFirst1000, SenderA, BodyHi),
     LineText(<<>>, JanFirst1005, SenderB, BodyImage),
     LineText(<<>>, JanThird0900, SenderA, BodyStickerEmoji),
     LineText(<<>>, JanSecond2359, SenderB, BodyCall2Hr)}

ChatContents == {JoinLines(ls) : ls \in SeqsUpTo(ChatLines, MaxChatLines)}

(***************************************************************************)
(* parse_chat                                                              *)
(***************************************************************************)
InitState ==
    /\ pc = "read"
    /\ err = "none"
    /\ matches = <<>>
    /\ k = 1
    /\ msgs = <<>>
    /\ calls = <<>>
    /\ msg_count = <<>> /\ img_count = <<>> /\ stk_count = <<>>
    /\ daily = <<>>
    /\ fcast = "none"
    /\ heat = "none" /\ stats = "none" /\ corpus = "none" /\ lengths = "none"
    /\ hours = "none" /\ emojis = "none" /\ resp = "none"

\* chats that exercise the parser
InitParse == content \in ParseContents /\ InitState

\* chats that exercise the analysis stages
InitAnalyze == content \in ChatContents /\ InitState

Init == InitParse \/ InitAnalyze

\* the record appended to msgs for the match m
MessageRecord(m) == [datetime |-> Strptime(m.dt_str), sender |-> m.sender, message |-> m.msg]

\* the record appended to calls for the match m
CallRecord(m) == [datetime  |-> Strptime(m.dt_str),
                  initiator |-> m.sender,
                  duration  |-> CallDuration(m.msg),
                  type      |-> CallType(m.msg)]

\* content = file.read(); matches = re.findall(pattern, content)
ReadAndFindAll ==
    /\ pc = "read"
    /\ matches' = FindAll(content)
    /\ k' = 1
    /\ pc' = "loop"
    /\ UNCHANGED <<content, err, msgs, calls, countVars, daily, fcast, laterVars>>

\* one turn of the loop over the matches
ParseMatch ==
    /\ pc = "loop"
    /\ k <= Len(matches)
    /\ LET m == matches[k]
       IN  IF ~StrptimeOk(m.dt_str)
           THEN /\ pc' = "raised"
                /\ err' = "strptime"
                /\ UNCHANGED <<k, msgs, calls>>
           ELSE /\ k' = k + 1
                /\ UNCHANGED <<pc, err>>
                /\ IF IsCallMsg(m.msg)
                   THEN /\ calls' = Append(calls, CallRecord(m))
                        /\ msgs' = msgs
                   ELSE /\ msgs' = Append(msgs, MessageRecord(m))
                        /\ calls' = calls
    /\ UNCHANGED <<content, matches, countVars, daily, fcast, laterVars>>

\* return pd.DataFrame(msgs), pd.DataFrame(calls)
ParseReturn ==
    /\ pc = "loop"
    /\ k > Len(matches)
    /\ pc' = "counts"
    /\ UNCHANGED <<content, err, matches, k, msgs, calls, countVars, daily, fcast, laterVars>>

(***************************************************************************)
(* datetime and pandas operations used by analyze_chat.  A mean is kept as *)
(* the fraction num / den.                                                 *)
(***************************************************************************)
DaysBeforeYear(y) == (y - 1) * 365 + ((y - 1) \div 4) - ((y - 1) \div 100) + ((y - 1) \div 400)

RECURSIVE DaysBeforeMonth(_, _)
DaysBeforeMonth(y, m) == IF m = 1 THEN 0 ELSE DaysBeforeMonth(y, m - 1) + DaysInMonth(y, m - 1)

\* date.toordinal()
ToOrdinal(d) == DaysBeforeYear(d.year) + DaysBeforeMonth(d.year, d.month) + d.day

\* .dt.date
DateOf(dt) == [year |-> dt.year, month |-> dt.month, day |-> dt.day]

\* .dt.dayofweek, Monday = 0
DayOfWeek(dt) == (ToOrdinal(dt) + 6) % 7

SecondsOfDay(dt) == dt.hour * 3600 + dt.minute * 60 + dt.second

\* (a - b).total_seconds()
TotalSeconds(a, b) == (ToOrdinal(a) - ToOrdinal(b)) * 86400 + SecondsOfDay(a) - SecondsOfDay(b)

\* a missing value is the empty sequence, a present value v is <<v>>
NaN == <<>>

RECURSIVE SumSeq(_)
SumSeq(s) == IF s = <<>> THEN 0 ELSE s[1] + SumSeq(Tail(s))

RECURSIVE ConcatAll(_)
ConcatAll(parts) == IF parts = <<>> THEN <<>> ELSE parts[1] \o ConcatAll(Tail(parts))

\* values of a column in order of first appearance
RECURSIVE Uniq(_)
Uniq(col) ==
    IF col = <<>> THEN <<>>
    ELSE LET front == Uniq(SubSeq(col, 1, Len(col) - 1))
             x     == col[Len(col)]
         IN  IF x \in Range(front) THEN front ELSE Append(front, x)

CountOf(col, v) == Cardinality({i \in DOMAIN col : col[i] = v})

\* stable sort of rows by their integer field key, ascending
RECURSIVE SortByKey(_)
SortByKey(rows) ==
    IF rows = <<>> THEN <<>>
    ELSE LET sorted == SortByKey(SubSeq(rows, 1, Len(rows) - 1))
             r      == rows[Len(rows)]
             n      == Cardinality({i \in DOMAIN sorted : sorted[i].key <= r.key})
         IN  SubSeq(sorted, 1, n) \o <<r>> \o SubSeq(sorted, n + 1, Len(sorted))

\* Series.value_counts(): one row per value, most frequent first
ValueCounts(col) ==
    LET u      == Uniq(col)
        rows   == [i \in DOMAIN u |-> [key |-> 0 - CountOf(col, u[i]), index |-> u[i]]]
        sorted == SortByKey(rows)
    IN  [i \in DOMAIN sorted |-> [index |-> sorted[i].index, count |-> 0 - sorted[i].key]]

Lower(c) == IF c \in Range(UpperChars)
            THEN LowerChars[CHOOSE i \in DOMAIN UpperChars : UpperChars[i] = c]
            ELSE c

\* str.lower()
LowerStr(s) == [i \in DOMAIN s |-> Lower(s[i])]

\* Series.str.contains(pat, case=False) on one value
ContainsNoCase(s, pat) == Contains(LowerStr(s), LowerStr(pat))

TxtImageOmitted == <<"i", "m", "a", "g", "e", " ", "o", "m", "i", "t", "t", "e", "d">>

TxtStickerOmitted == <<"s", "t", "i", "c", "k", "e", "r", " ", "o", "m", "i", "t", "t", "e", "d">>

\* msgs_df[msgs_df['message'].str.contains(pat, case=False)]['sender']
SendersOf(rows) == [i \in DOMAIN rows |-> rows[i].sender]

Matching(rows, pat) == SelectSeq(rows, LAMBDA r : ContainsNoCase(r.message, pat))

\* msgs_df['sender'] raises KeyError on the frame built from an empty list
HasColumns(rows) == rows # <<>>

(***************************************************************************)
(* 1: counts by sender                                                     *)
(***************************************************************************)
CountsBySender ==
    /\ pc = "counts"
    /\ IF ~HasColumns(msgs)
       THEN /\ pc' = "raised"
            /\ err' = "KeyError sender"
            /\ UNCHANGED countVars
       ELSE /\ msg_count' = ValueCounts(SendersOf(msgs))
            /\ img_count' = ValueCounts(SendersOf(Matching(msgs, TxtImageOmitted)))
            /\ stk_count' = ValueCounts(SendersOf(Matching(msgs, TxtStickerOmitted)))
            /\ pc' = "daily"
            /\ err' = err
    /\ UNCHANGED <<content, matches, k, msgs, calls, daily, fcast, laterVars>>

(***************************************************************************)
(* 2: time series + ARIMA                                                  *)
(***************************************************************************)
RollWindow == 7

Horizon == 30

\* msgs_df.groupby('date').size(): one row per date that has a message,
\* in increasing order of date
GroupSizeByDate(rows) ==
    LET dates  == [i \in DOMAIN rows |-> DateOf(rows[i].datetime)]
        u      == Uniq(dates)
        keyed  == [i \in DOMAIN u |-> [key |-> ToOrdinal(u[i]), date |-> u[i]]]
        sorted == SortByKey(keyed)
    IN  [i \in DOMAIN sorted |-> [date |-> sorted[i].date, count |-> CountOf(dates, sorted[i].date)]]

\* rolling(7, center=True).mean() at row i
RollingMean(rows, i) ==
    LET h == RollWindow \div 2
    IN  IF i - h >= 1 /\ i + h <= Len(rows)
        THEN <<[num |-> SumSeq([j \in 1..RollWindow |-> rows[i - h + j - 1].count]), den |-> RollWindow]>>
        ELSE NaN

BuildDaily ==
    /\ pc = "daily"
    /\ LET g == GroupSizeByDate(msgs)
       IN  daily' = [i \in DOMAIN g |-> [date |-> g[i].date, count |-> g[i].count,
                                         trend |-> RollingMean(g, i)]]
    /\ pc' = "arima"
    /\ UNCHANGED <<parseVarsButPc, countVars, fcast, laterVars>>

\* auto_arima, ARIMA(...).fit() and forecast(30) return
ForecastOk ==
    /\ pc = "arima"
    /\ fcast' = [first_day |-> ToOrdinal(daily[Len(daily)].date) + 1, periods |-> Horizon]
    /\ pc' = "heatmap"
    /\ UNCHANGED <<parseVarsButPc, countVars, daily, laterVars>>

\* auto_arima or ARIMA(...).fit() raises; nothing in analyze_chat catches it
ForecastFail ==
    /\ pc = "arima"
    /\ pc' = "raised"
    /\ err' = "arima"
    /\ UNCHANGED <<content, matches, k, msgs, calls, countVars, daily, fcast, laterVars>>

(***************************************************************************)
(* 3: call heatmap, 4: stats                                               *)
(***************************************************************************)
\* calls_df.groupby(['dow','hour'])['duration'].mean()
MeanDurationByDowHour(rows) ==
    LET cells == {<<DayOfWeek(rows[i].datetime), rows[i].datetime.hour>> : i \in DOMAIN rows}
        at(c) == SelectSeq(rows, LAMBDA r : <<DayOfWeek(r.datetime), r.datetime.hour>> = c)
    IN  [c \in cells |-> [num |-> SumSeq([i \in DOMAIN at(c) |-> at(c)[i].duration]),
                          den |-> Len(at(c))]]

CallHeatmap ==
    /\ pc = "heatmap"
    /\ heat' = IF calls # <<>> THEN MeanDurationByDowHour(calls) ELSE heat
    /\ pc' = "stats"
    /\ UNCHANGED <<parseVarsButPc, countVars, daily, fcast,
                   stats, corpus, lengths, hours, emojis, resp>>

\* comp['duration'].mean() if not comp.empty else 0
MeanDuration(rows) ==
    IF rows # <<>>
    THEN [num |-> SumSeq([i \in DOMAIN rows |-> rows[i].duration]), den |-> Len(rows)]
    ELSE [num |-> 0, den |-> 1]

CallStats ==
    /\ pc = "stats"
    /\ IF ~HasColumns(calls)
       THEN /\ pc' = "raised"
            /\ err' = "KeyError type"
            /\ stats' = stats
       ELSE /\ LET comp == SelectSeq(calls, LAMBDA c : c.type = "Completed")
                   miss == SelectSeq(calls, LAMBDA c : c.type = "Missed")
               IN  stats' = [total |-> Len(calls), completed |-> Len(comp),
                             missed |-> Len(miss), avg_dur |-> MeanDuration(comp)]
            /\ pc' = "wordcloud"
            /\ err' = err
    /\ UNCHANGED <<content, matches, k, msgs, calls, countVars, daily, fcast,
                   heat, corpus, lengths, hours, emojis, resp>>

(***************************************************************************)
(* 5: word cloud corpus, message lengths, 7: active hours, emoji usage     *)
(***************************************************************************)
\* a sample of stopwords.words('spanish'), the external stopword list
SpanishStopwords == {<<"l", "a">>, <<"d", "e">>, <<"q", "u", "e">>}

\* a sample of emoji.EMOJI_DATA, the external classification table; a
\* character outside ASCII is written as its code point
EmojiData == {"U+1F600", "U+2764"}

RECURSIVE NonSpaceRunEnd(_, _)
NonSpaceRunEnd(s, i) == IF i + 1 <= Len(s) /\ s[i + 1] # " " THEN NonSpaceRunEnd(s, i + 1) ELSE i

\* str.split()
RECURSIVE SplitFrom(_, _)
SplitFrom(s, i) ==
    IF i > Len(s) THEN <<>>
    ELSE IF s[i] = " " THEN SplitFrom(s, i + 1)
    ELSE <<SubSeq(s, i, NonSpaceRunEnd(s, i))>> \o SplitFrom(s, NonSpaceRunEnd(s, i) + 1)

Split(s) == SplitFrom(s, 1)

\* w.isalpha()
IsAlphaStr(w) == w # <<>> /\ \A i \in DOMAIN w : IsAlpha(w[i])

\* ' '.join(parts)
RECURSIVE JoinSpace(_)
JoinSpace(parts) ==
    IF parts = <<>> THEN <<>>
    ELSE IF Len(parts) = 1 THEN parts[1]
    ELSE parts[1] \o <<" ">> \o JoinSpace(Tail(parts))

\* ' '.join(w for w in ws if w.isalpha() and w not in spanish_sw)
KeptWords(msg) ==
    JoinSpace(SelectSeq(Split(LowerStr(msg)), LAMBDA w : IsAlphaStr(w) /\ w \notin SpanishStopwords))

WordCloudCorpus ==
    /\ pc = "wordcloud"
    /\ corpus' = JoinSpace([i \in DOMAIN msgs |-> KeptWords(msgs[i].message)])
    /\ pc' = "lengths"
    /\ UNCHANGED <<parseVarsButPc, countVars, daily, fcast,
                   heat, stats, lengths, hours, emojis, resp>>

\* Series.median()
Median(data) ==
    LET sorted == SortByKey([i \in DOMAIN data |-> [key |-> data[i]]])
        n      == Len(sorted)
    IN  IF n % 2 = 1 THEN [num |-> sorted[(n + 1) \div 2].key, den |-> 1]
        ELSE [num |-> sorted[n \div 2].key + sorted[(n \div 2) + 1].key, den |-> 2]

\* analyze_message_lengths_by_sender: mean and median length per sender
analyze_message_lengths_by_sender ==
    /\ pc = "lengths"
    /\ LET senders == Uniq(SendersOf(msgs))
           data(x) == LET own == SelectSeq(msgs, LAMBDA r : r.sender = x)
                      IN  [i \in DOMAIN own |-> Len(own[i].message)]
       IN  lengths' = [i \in DOMAIN senders |->
                          [sender |-> senders[i],
                           mean   |-> [num |-> SumSeq(data(senders[i])), den |-> Len(data(senders[i]))],
                           median |-> Median(data(senders[i]))]]
    /\ pc' = "hours"
    /\ UNCHANGED <<parseVarsButPc, countVars, daily, fcast,
                   heat, stats, corpus, hours, emojis, resp>>

\* msgs_df['hour'].value_counts().sort_index()
ActiveHours ==
    /\ pc = "hours"
    /\ LET hs == [i \in DOMAIN msgs |-> msgs[i].datetime.hour]
       IN  hours' = [h \in Range(hs) |-> CountOf(hs, h)]
    /\ pc' = "emoji"
    /\ UNCHANGED <<parseVarsButPc, countVars, daily, fcast,
                   heat, stats, corpus, lengths, emojis, resp>>

TopN == 10

\* ''.join(c for c in text if c in emoji.EMOJI_DATA)
extract_emojis(text) == SelectSeq(text, LAMBDA c : c \in EmojiData)

\* Counter(all_emojis).most_common(10)
MostCommon(chars, n) ==
    LET vc == ValueCounts(chars)
    IN  SubSeq(vc, 1, IF Len(vc) < n THEN Len(vc) ELSE n)

\* plot_emoji_usage: returns early when no emoji is found
plot_emoji_usage ==
    /\ pc = "emoji"
    /\ LET all_emojis == ConcatAll([i \in DOMAIN msgs |-> extract_emojis(msgs[i].message)])
       IN  emojis' = IF all_emojis = <<>> THEN "No emojis found"
                     ELSE MostCommon(all_emojis, TopN)
    /\ pc' = "resp"
    /\ UNCHANGED <<parseVarsButPc, countVars, daily, fcast,
                   heat, stats, corpus, lengths, hours, resp>>

(***************************************************************************)
(* 9: response times                                                       *)
(***************************************************************************)
\* a diff() that is not grouped: the gap to the previous row, whoever sent it
PlainDiffSeconds(rows, i) ==
    IF i = 1 THEN NaN ELSE <<TotalSeconds(rows[i].datetime, rows[i - 1].datetime)>>

\* msgs_df.groupby('sender')['datetime'].diff().dt.total_seconds() at row i
GroupDiffSeconds(rows, i) ==
    LET before == {j \in 1..(i - 1) : rows[j].sender = rows[i].sender}
    IN  IF before = {} THEN NaN
        ELSE <<TotalSeconds(rows[i].datetime, rows[Max(before)].datetime)>>

\* the column resp_min, in seconds (resp_min = seconds / 60)
RespSeconds(rows) == [i \in DOMAIN rows |-> GroupDiffSeconds(rows, i)]

\* msgs_df.groupby('sender')['resp_min'].mean().dropna()
MeanRespBySender(rows) ==
    LET col     == RespSeconds(rows)
        vals(x) == ConcatAll([i \in DOMAIN rows |-> IF rows[i].sender = x THEN col[i] ELSE <<>>])
        keys    == {x \in Range(SendersOf(rows)) : vals(x) # <<>>}
    IN  [x \in keys |-> [num |-> SumSeq(vals(x)), den |-> 60 * Len(vals(x))]]

ResponseTimes ==
    /\ pc = "resp"
    /\ resp' = MeanRespBySender(msgs)
    /\ pc' = "done"
    /\ UNCHANGED <<parseVarsButPc, countVars, daily, fcast,
                   heat, stats, corpus, lengths, hours, emojis>>

Next ==
    \/ ReadAndFindAll \/ ParseMatch \/ ParseReturn
    \/ CountsBySender \/ BuildDaily \/ ForecastOk \/ ForecastFail
    \/ CallHeatmap \/ CallStats \/ WordCloudCorpus \/ analyze_message_lengths_by_sender
    \/ ActiveHours \/ plot_emoji_usage \/ ResponseTimes

Spec == Init /\ [][Next]_vars

(***************************************************************************)
(* Properties.                                                             *)
(***************************************************************************)
\* parse_chat has returned its two tables
ParseReturned == pc \notin {"read", "loop"} /\ err # "strptime"

\* the lines of a text
RECURSIVE LinesFrom(_, _)
LinesFrom(s, i) ==
    IF i > Len(s) + 1 THEN <<>>
    ELSE LET ends == {j \in i..Len(s) : s[j] = NL}
             e    == IF ends = {} THEN Len(s) + 1 ELSE Min(ends)
         IN  <<SubSeq(s, i, e - 1)>> \o LinesFrom(s, e + 1)

LinesOf(s) == LinesFrom(s, 1)

\* a line that is, from its first character on, [stamp] sender: body
IsFormLine(line) == PatternMatchesAt(line, 1)

FormLines(s) == SelectSeq(LinesOf(s), IsFormLine)

FormGroups(s) == [i \in DOMAIN FormLines(s) |-> Groups(MatchAt(FormLines(s)[i], 1))]

\* the matches already turned into records, and those among them that are calls
Consumed == SubSeq(matches, 1, k - 1)

CallMatches == SelectSeq(Consumed, LAMBDA m : IsCallMsg(m.msg))

\* C1: once parse_chat has returned, the messages and the calls are, in chat
\* order, the records of the input lines of the form [stamp] sender: body,
\* one record per such line, and no other line has a record.
C1_RecordsAreTheFormLines ==
    ParseReturned =>
        /\ Len(msgs) + Len(calls) = Len(FormLines(content))
        /\ msgs = [i \in DOMAIN SelectSeq(FormGroups(content), LAMBDA g : ~IsCallMsg(g.msg)) |->
                      MessageRecord(SelectSeq(FormGroups(content), LAMBDA g : ~IsCallMsg(g.msg))[i])]
        /\ calls = [i \in DOMAIN SelectSeq(FormGroups(content), LAMBDA g : IsCallMsg(g.msg)) |->
                      CallRecord(SelectSeq(FormGroups(content), LAMBDA g : IsCallMsg(g.msg))[i])]

\* the one-line chats [ts] sender: body with a valid time stamp
RoundTripStamps == {ValidStamp, LeapStamp}

RoundTripCases ==
    {[ts |-> t, sender |-> s, body |-> b, line |-> LineText(<<>>, t, s, b)] :
        t \in RoundTripStamps, s \in ParseSenders, b \in ParseBodies}

\* C2 as stated: the line [ts] sender: body yields exactly one record, and
\* that record holds ts, sender and body, whatever the body.
C2_OneRecordKeepsTheBody ==
    \A c \in RoundTripCases :
        (ParseReturned /\ content = c.line) =>
            /\ Len(msgs) + Len(calls) = 1
            /\ \E i \in DOMAIN msgs :
                   msgs[i].datetime = c.ts /\ msgs[i].sender = c.sender /\ msgs[i].message = c.body

\* C2 amended: the line [ts] sender: body yields exactly one record, split at
\* the first ": " after the sender: a message holding ts, sender and body
\* when the body is not a call announcement, and otherwise a call holding ts
\* and sender, which does not keep the body.
C2_RoundTrip ==
    \A c \in RoundTripCases :
        (ParseReturned /\ content = c.line) =>
            IF IsCallMsg(c.body)
            THEN /\ msgs = <<>>
                 /\ Len(calls) = 1
                 /\ calls[1].datetime = c.ts /\ calls[1].initiator = c.sender
                 /\ DOMAIN calls[1] = {"datetime", "initiator", "duration", "type"}
            ELSE /\ calls = <<>>
                 /\ msgs = <<[datetime |-> c.ts, sender |-> c.sender, message |-> c.body]>>

\* a sender with a colon and a body with ": " came back as written
C2_Witness ==
    /\ ParseReturned
    /\ content = LineText(<<>>, ValidStamp, SenderColon, BodyColon)
    /\ msgs = <<[datetime |-> ValidStamp, sender |-> SenderColon, message |-> BodyColon]>>

\* C3: a call record with status Missed has duration 0, whatever digits its
\* body holds, and no call record has a negative duration.
C3_MissedHasNoDuration ==
    \A i \in DOMAIN calls :
        /\ calls[i].type = "Missed" => calls[i].duration = 0
        /\ calls[i].duration >= 0

\* the call "Missed video call, 3 hrs ago" was recorded
C3_Witness ==
    \E i \in DOMAIN calls :
        /\ CallMatches[i].msg = BodyMissed3Hrs
        /\ calls[i].type = "Missed"
        /\ calls[i].duration = 0

\* the integers of a body that a space follows: digits from o[1] to o[2]
IntegerSpans(s) ==
    {o \in (1..Len(s)) \X (1..Len(s)) :
        /\ o[1] <= o[2] /\ o[2] + 2 <= Len(s)
        /\ \A p \in o[1]..o[2] : IsDigit(s[p])
        /\ s[o[2] + 1] = " "}

\* the occurrences <integer> <unit-word> in a body: digits from o[1] to
\* o[2], one space, then the word that runs from o[2] + 2 to o[3]
Occurrences(s) ==
    {<<o[1], o[2], u>> : <<o, u>> \in
        {x \in IntegerSpans(s) \X (1..Len(s)) :
            /\ x[1][2] + 2 <= x[2]
            /\ \A p \in (x[1][2] + 2)..x[2] : IsWordChar(s[p])
            /\ (x[2] = Len(s) \/ ~IsWordChar(s[x[2] + 1]))}}

FirstOccurrence(s) == CHOOSE o \in Occurrences(s) : \A q \in Occurrences(s) : o[1] <= q[1]

\* the minutes the first occurrence stands for, 0 when there is none
ClaimedMinutes(s) ==
    IF Occurrences(s) = {} THEN 0
    ELSE LET o == FirstOccurrence(s)
             n == IntOf(SubSeq(s, o[1], o[2]))
         IN  IF o[3] >= o[2] + 3 /\ s[o[2] + 2] = "h" /\ s[o[2] + 3] = "r" THEN n * 60 ELSE n

\* C4: the duration of a Completed call is given by the first occurrence of
\* <integer> <unit-word> in its body: the integer times 60 when the word
\* starts with "hr", the integer otherwise, 0 without an occurrence; "2 hr"
\* gives 120 and "45 min" gives 45.
C4_CompletedDuration ==
    \A i \in DOMAIN calls :
        calls[i].type = "Completed" =>
            /\ calls[i].duration = ClaimedMinutes(CallMatches[i].msg)
            /\ CallMatches[i].msg = BodyCall2Hr => calls[i].duration = 120
            /\ CallMatches[i].msg = BodyCall45Min => calls[i].duration = 45
            /\ CallMatches[i].msg = BodyVideoCall => calls[i].duration = 0

\* a call of "2 hr 45 min", taken at its first occurrence, and a call of
\* "45 min" were recorded
C4_Witness ==
    /\ Len(calls) = 2
    /\ CallMatches[1].msg = BodyCall2Hr45Min /\ calls[1].type = "Completed" /\ calls[1].duration = 120
    /\ CallMatches[2].msg = BodyCall45Min /\ calls[2].type = "Completed" /\ calls[2].duration = 45

\* the daily series has been built
DailyBuilt == pc \in {"arima", "heatmap", "stats", "wordcloud", "lengths", "hours", "emoji", "resp", "done"}

MessageDays == {ToOrdinal(DateOf(msgs[i].datetime)) : i \in DOMAIN msgs}

\* C5: the daily series has one row for every calendar date from the first
\* to the last message date, in increasing order, with count 0 on the dates
\* without a message; its length is (last - first).days + 1.
C5_DailySeriesIsContiguous ==
    DailyBuilt =>
        /\ Len(daily) = Max(MessageDays) - Min(MessageDays) + 1
        /\ \A i \in DOMAIN daily :
               /\ ToOrdinal(daily[i].date) = Min(MessageDays) + i - 1
               /\ daily[i].count =
                      Cardinality({j \in DOMAIN msgs : DateOf(msgs[j].datetime) = daily[i].date})

\* C6: a failure of the ARIMA order search or fit does not end the run with
\* an error.
C6_ForecastFailureIsContained == ~(pc = "raised" /\ err = "arima")

\* the stamps of the matches that strptime accepts
GoodMatches == SelectSeq(FindAll(content), LAMBDA m : StrptimeOk(m.dt_str))

\* C7: a matched line whose time stamp is not a real date-time is dropped:
\* the run is not aborted, and the records are those of the other lines.
C7_BadStampIsDropped ==
    /\ ~(pc = "raised" /\ err = "strptime")
    /\ pc \notin {"read", "loop"} =>
           /\ msgs = [i \in DOMAIN SelectSeq(GoodMatches, LAMBDA m : ~IsCallMsg(m.msg)) |->
                         MessageRecord(SelectSeq(GoodMatches, LAMBDA m : ~IsCallMsg(m.msg))[i])]
           /\ calls = [i \in DOMAIN SelectSeq(GoodMatches, LAMBDA m : IsCallMsg(m.msg)) |->
                         CallRecord(SelectSeq(GoodMatches, LAMBDA m : IsCallMsg(m.msg))[i])]

\* C8: with no call record, neither the call heatmap stage nor the call
\* summary stage raises.
C8_NoCallsDoesNotRaise ==
    (ParseReturned /\ calls = <<>>) => ~(pc = "raised" /\ err = "KeyError type")

\* the messages of one sender, in chat order
OwnMessages(x) == SelectSeq(msgs, LAMBDA r : r.sender = x)

\* the gaps between the consecutive messages of one sender, in seconds
OwnGaps(x) ==
    [i \in 1..(Len(OwnMessages(x)) - 1) |->
        TotalSeconds(OwnMessages(x)[i + 1].datetime, OwnMessages(x)[i].datetime)]

\* C9: the response mapping has a key for a sender exactly when that sender
\* has at least 2 messages, and the value is the mean, in minutes, of the
\* gaps between the sender's consecutive messages.
C9_ResponseLatency ==
    pc = "done" =>
        /\ DOMAIN resp = {x \in Range(SendersOf(msgs)) : Len(OwnMessages(x)) >= 2}
        /\ \A x \in DOMAIN resp :
               resp[x].num * 60 * Len(OwnGaps(x)) = SumSeq(OwnGaps(x)) * resp[x].den

\* a sender with two messages around a message of another sender has a
\* value, and the sender of that single message has none
C9_Witness ==
    /\ pc = "done"
    /\ \E a \in 1..Len(msgs), b \in 1..Len(msgs), c \in 1..Len(msgs) :
           /\ a < b /\ b < c
           /\ msgs[a].sender = msgs[c].sender
           /\ msgs[b].sender # msgs[a].sender
           /\ msgs[a].sender \in DOMAIN resp
           /\ resp[msgs[a].sender].num > 0
           /\ msgs[b].sender \notin DOMAIN resp

\* the per-sender counts have been built
CountsBuilt == pc \in {"daily"} \/ DailyBuilt

\* C10: every sender of the message counts is also in the image counts and
\* in the sticker counts, row by row, with 0 for a sender without such a
\* message.
C10_MediaCountsCoverEverySender ==
    CountsBuilt =>
        /\ Len(img_count) = Len(msg_count) /\ Len(stk_count) = Len(msg_count)
        /\ \A i \in DOMAIN msg_count :
               /\ img_count[i].index = msg_count[i].index
               /\ stk_count[i].index = msg_count[i].index
               /\ img_count[i].count =
                      Len(SelectSeq(Matching(msgs, TxtImageOmitted), LAMBDA r : r.sender = msg_count[i].index))
               /\ stk_count[i].count =
                      Len(SelectSeq(Matching(msgs, TxtStickerOmitted), LAMBDA r : r.sender = msg_count[i].index))

====
